---- MODULE Spec2Model ----
(***************************************************************************)
(* The request store of the aircraft service request client: one mounted  *)
(* MainApplication component (src/unnamed/part_000), the transport and     *)
(* transcoding functions of src/api.ts, and the remote service they talk   *)
(* to.  Every remote call is a record in `calls`: it is issued by a        *)
(* handler, processed by the server at some later step, and its response   *)
(* is handled by the continuation of the handler at a still later step,    *)
(* so responses may arrive in any order.                                   *)
(*                                                                         *)
(* Spec is the store with its flows and notifications; the filter inputs   *)
(* stay as mounted there.  ViewSpec works the filter controls over every   *)
(* order of a loaded list, DeliverySpec runs the delivery completion flow  *)
(* over several request times and times of day.                            *)
(*                                                                         *)
(* Texts are sequences of character codes, dates are milliseconds since    *)
(* the epoch (NaN for an invalid Date), wire date strings are tuples of    *)
(* the UTC components an ISO string spells out.                            *)
(***************************************************************************)
EXTENDS Integers, Sequences, FiniteSets, TLC

\* ---------------------------------------------------------------- bounds
\* Handler runs that enter their try block during one session (each issues
\* at most one remote call).
MaxCalls == 3
\* Readings of the client clock after which it no longer advances.
MaxClock == 1

\* ------------------------------------------------------- values and types
\* useState<string | null>(null): no pending target.
Null == 0
\* The time value of an invalid Date.
NaN == 0 - 1
\* An optional Date that is not set.
Undefined == 0 - 2
\* An id that is undefined (a record decoded from a body without one).
UndefinedId == 0 - 1
\* A text property that is undefined.
UndefinedText == <<0>>

Pending == "PENDING"
Completed == "COMPLETED"
UndefinedStatus == "undefined"

Connect == "CONNECT"
Disconnect == "DISCONNECT"
Replace == "REPLACE"

MsPerSecond == 10 * 100
MsPerMinute == 60 * MsPerSecond
MsPerHour == 60 * MsPerMinute
MsPerDay == 24 * MsPerHour

\* Offset of the client's local time zone from UTC, in milliseconds.
TzOffsetMs == 2 * MsPerHour

\* "14:30" and "07:05" as character codes (':' is 58, '0' is 48).
Colon == 58
Digit0 == 48
Time1430 == <<49, 52, 58, 51, 48>>
Time0705 == <<48, 55, 58, 48, 53>>

\* A date from its UTC day, hour, minute, second and millisecond.
MkDate(d, h, mi, s, ms) ==
    d * MsPerDay + h * MsPerHour + mi * MsPerMinute + s * MsPerSecond + ms

\* ---------------------------------------------------------- Date and JSON
\* Date.prototype.toJSON / toISOString: the UTC components; an invalid Date
\* serialises to null, which is the empty tuple here.
ToJSON(t) ==
    IF t = NaN THEN <<>>
    ELSE << t \div MsPerDay,
            (t % MsPerDay) \div MsPerHour,
            (t % MsPerHour) \div MsPerMinute,
            (t % MsPerMinute) \div MsPerSecond,
            t % MsPerSecond >>

\* new Date(string): the instant an ISO string names; NaN for a missing or
\* unparseable one.
NewDate(w) ==
    IF Len(w) = 5
        /\ w[1] >= 0 /\ w[2] \in 0..23 /\ w[3] \in 0..59 /\ w[4] \in 0..59
        /\ w[5] \in 0..999
    THEN MkDate(w[1], w[2], w[3], w[4], w[5])
    ELSE NaN

\* Number(s) for a string of characters: the decimal value of a digit
\* string, 0 for the empty string, NaN otherwise.
RECURSIVE Number(_)
Number(s) ==
    IF s = <<>> THEN 0
    ELSE LET init == Number(SubSeq(s, 1, Len(s) - 1))
             c == s[Len(s)]
         IN IF init = NaN \/ c < Digit0 \/ c > Digit0 + 9 THEN NaN
            ELSE init * 10 + (c - Digit0)

\* String.prototype.split(':'): the pieces between the colons.
RECURSIVE Split(_)
Split(s) ==
    IF \A i \in 1..Len(s) : s[i] # Colon THEN <<s>>
    ELSE LET k == CHOOSE i \in 1..Len(s) :
                     s[i] = Colon /\ \A j \in 1..(i - 1) : s[j] # Colon
         IN <<SubSeq(s, 1, k - 1)>> \o Split(SubSeq(s, k + 1, Len(s)))

\* Date.prototype.setHours(hours, minutes, 0, 0): the same local calendar
\* day with the given local hour and minute (which carry over when out of
\* range); NaN when the date or an argument is NaN.
SetHours(t, hours, minutes) ==
    IF t = NaN \/ hours = NaN \/ minutes = NaN THEN NaN
    ELSE LET local == t + TzOffsetMs
             day == local \div MsPerDay
         IN day * MsPerDay + hours * MsPerHour + minutes * MsPerMinute
            - TzOffsetMs

\* The completion date taken from the day of the submission instead.
CompletionDateOfToday(requestTime, completionTimeStr) ==
    LET parts == Split(completionTimeStr)
        hours == Number(parts[1])
        minutes == IF Len(parts) >= 2 THEN Number(parts[2]) ELSE NaN
    IN SetHours(MkDate(3, 9, 0, 0, 0), hours, minutes)

\* src lines 152-154: the completion date of the delivery flow.
CompletionDate(requestTime, completionTimeStr) ==
    LET parts == Split(completionTimeStr)
        hours == Number(parts[1])
        minutes == IF Len(parts) >= 2 THEN Number(parts[2]) ELSE NaN
    IN SetHours(requestTime, hours, minutes)

\* ------------------------------------------------------------- records
\* "Al", "7", "B12", "QF1", "10:00" as character codes.
TextAl == <<65, 108>>
Text7 == <<55>>
TextB12 == <<66, 49, 50>>
TextQF1 == <<81, 70, 49>>
Text1000 == <<49, 48, 58, 48, 48>>
TextDee == <<68, 101, 101>>
Text9 == <<57>>

\* The fields the request form submits (Omit<ServiceRequest, 'id' |
\* 'requestTime' | 'status'>, as createRequest serialises them).
CreatePayloads ==
    { [staffName |-> TextAl, staffNumber |-> Text7, aircraftBay |-> TextB12,
       flightNumber |-> TextQF1, serviceType |-> Connect,
       aircraftEta |-> Text1000] }

\* What the delivery dialog submits: staff name, staff number, time of day.
DeliveryNames == {TextDee}
DeliveryNumbers == {Text9}
DeliveryTimes == {Time1430}

\* Request times the server's clock assigns, and where the client's starts.
ServerTimes == {MkDate(2, 23, 30, 15, 250)}
ClockBase == MkDate(3, 9, 0, 0, 0)

\* A wire record with none of its properties: what a body that is not a
\* JSON object with these fields gives when its properties are read.
EmptyWire ==
    [id |-> UndefinedId, staff_name |-> UndefinedText,
     staff_number |-> UndefinedText, aircraft_bay |-> UndefinedText,
     flight_number |-> UndefinedText, request_time |-> <<>>,
     completion_time |-> <<>>, status |-> UndefinedStatus,
     service_type |-> UndefinedStatus, aircraft_eta |-> UndefinedText,
     delivery_staff_name |-> UndefinedText,
     delivery_staff_number |-> UndefinedText]

\* transformRequest: wire record to ServiceRequest.
TransformRequest(request) ==
    [id |-> request.id,
     staffName |-> request.staff_name,
     staffNumber |-> request.staff_number,
     aircraftBay |-> request.aircraft_bay,
     flightNumber |-> request.flight_number,
     requestTime |-> NewDate(request.request_time),
     completionTime |-> IF request.completion_time # <<>>
                        THEN NewDate(request.completion_time)
                        ELSE Undefined,
     status |-> request.status,
     serviceType |-> request.service_type,
     aircraftEta |-> request.aircraft_eta,
     deliveryStaffName |-> request.delivery_staff_name,
     deliveryStaffNumber |-> request.delivery_staff_number]

\* Array.prototype.map(transformRequest) over the list body.
TransformAll(data) == [i \in 1..Len(data) |-> TransformRequest(data[i])]

\* The body of a PATCH: JSON.stringify(updates).  `keys` are the property
\* names present; a Date is serialised by ToJSON.
NoUpdates ==
    [keys |-> {}, status |-> UndefinedStatus, completionTime |-> <<>>,
     deliveryStaffName |-> UndefinedText,
     deliveryStaffNumber |-> UndefinedText]

\* The complete flow's updates without the completion time.
CompleteUpdatesStatusOnly(now) ==
    [NoUpdates EXCEPT !.keys = {"status"}, !.status = Completed]

\* src line 126: { status: Completed, completionTime: new Date() }.
CompleteUpdates(now) ==
    [NoUpdates EXCEPT !.keys = {"status", "completionTime"},
                      !.status = Completed,
                      !.completionTime = ToJSON(now)]

\* src lines 156-161: the delivery flow's updates.
DeliveryUpdates(completionDate, deliveryStaffName, deliveryStaffNumber) ==
    [keys |-> {"status", "completionTime", "deliveryStaffName",
               "deliveryStaffNumber"},
     status |-> Completed,
     completionTime |-> ToJSON(completionDate),
     deliveryStaffName |-> deliveryStaffName,
     deliveryStaffNumber |-> deliveryStaffNumber]

NoPayload ==
    [staffName |-> UndefinedText, staffNumber |-> UndefinedText,
     aircraftBay |-> UndefinedText, flightNumber |-> UndefinedText,
     serviceType |-> UndefinedStatus, aircraftEta |-> UndefinedText]

\* ------------------------------------------------------ the remote service
\* POST /requests: the record the service stores for a create payload.
ServerNewRecord(id, p, t) ==
    [id |-> id, staff_name |-> p.staffName, staff_number |-> p.staffNumber,
     aircraft_bay |-> p.aircraftBay, flight_number |-> p.flightNumber,
     request_time |-> ToJSON(t), completion_time |-> <<>>,
     status |-> Pending, service_type |-> p.serviceType,
     aircraft_eta |-> p.aircraftEta,
     delivery_staff_name |-> UndefinedText,
     delivery_staff_number |-> UndefinedText]

\* PATCH /requests/{id}: exactly the fields sent are applied.
ServerPatch(rec, upd) ==
    [rec EXCEPT
       !.status = IF "status" \in upd.keys THEN upd.status ELSE @,
       !.completion_time =
           IF "completionTime" \in upd.keys THEN upd.completionTime ELSE @,
       !.delivery_staff_name =
           IF "deliveryStaffName" \in upd.keys
           THEN upd.deliveryStaffName ELSE @,
       !.delivery_staff_number =
           IF "deliveryStaffNumber" \in upd.keys
           THEN upd.deliveryStaffNumber ELSE @]

\* Records the service already holds when the session starts.
SeedRecord(id) ==
    ServerNewRecord(id, CHOOSE p \in CreatePayloads : TRUE,
                    MkDate(1, 8, 0, 0, 0))
SeedDbs == { <<>>, <<SeedRecord(1)>> }

\* A response: HTTP ok or not, a JSON body or none, and the body, which is
\* an array (the list) or one object.
NoResponse == [ok |-> FALSE, json |-> FALSE, array |-> FALSE, recs |-> <<>>]
ErrorResponse == [ok |-> FALSE, json |-> TRUE, array |-> FALSE, recs |-> <<>>]
ListResponse(recs) == [ok |-> TRUE, json |-> TRUE, array |-> TRUE, recs |-> recs]
RecordResponse(rec) ==
    [ok |-> TRUE, json |-> TRUE, array |-> FALSE, recs |-> <<rec>>]
NoContentResponse == [ok |-> TRUE, json |-> FALSE, array |-> FALSE, recs |-> <<>>]

\* -------------------------------------------------------------- transport
\* processResponse throws for a response that is not ok.
ProcessResponseThrows(resp) == ~resp.ok

\* processResponse: the parsed JSON body, or {} when there is none.
ProcessResponse(resp) ==
    IF resp.json THEN [array |-> resp.array, recs |-> resp.recs]
    ELSE [array |-> FALSE, recs |-> <<>>]

\* The one object of a parsed body, {} giving a record without properties.
BodyObject(data) ==
    IF ~data.array /\ Len(data.recs) = 1 THEN data.recs[1] ELSE EmptyWire

\* getRequests rejects: the response is not ok, or data.map is not a
\* function because the body is not an array.
GetRequestsThrows(resp) ==
    ProcessResponseThrows(resp) \/ ~ProcessResponse(resp).array

\* getRequests: every record of the list decoded.
GetRequests(resp) == TransformAll(ProcessResponse(resp).recs)

\* createRequest and updateRequest reject only when the response is not ok.
CreateRequestThrows(resp) == ProcessResponseThrows(resp)
CreateRequest(resp) == TransformRequest(BodyObject(ProcessResponse(resp)))
UpdateRequestThrows(resp) == ProcessResponseThrows(resp)
UpdateRequest(resp) == TransformRequest(BodyObject(ProcessResponse(resp)))
\* deleteRequest that does not look at the response.
DeleteRequestNeverThrows(resp) == FALSE

\* deleteRequest rejects when processResponse throws.
DeleteRequestThrows(resp) == ProcessResponseThrows(resp)

\* ------------------------------------------------------------------ state
VARIABLES
    role,                \* App: null, 'REQUEST' or 'DELIVERY'
    isAuthenticated,     \* App
    mounted,             \* MainApplication rendered and its effect has run
    requests,            \* the local request list
    isLoading,
    error,               \* the last-load error text, "" for null
    confirmingComplete,
    confirmingDelete,
    completingDelivery,
    notifications,
    statusFilter,        \* 'ALL' or a RequestStatus
    serviceTypeFilter,   \* 'ALL' or a ServiceType
    dateFilter,          \* text of the date input, empty when not set
    searchTerm,          \* text of the search input
    clock,               \* readings of Date.now() so far
    calls,               \* remote calls in flight
    numCalls,            \* handler runs so far that entered their try block
    db,                  \* the records the remote service holds
    nextId               \* the id the service assigns next

appVars == <<role, isAuthenticated, mounted>>
flowVars == <<confirmingComplete, confirmingDelete, completingDelivery>>
storeVars == <<requests, isLoading, error>>
serverVars == <<db, nextId>>
viewVars == <<statusFilter, serviceTypeFilter, dateFilter, searchTerm>>
vars == <<role, isAuthenticated, mounted, requests, isLoading, error,
          confirmingComplete, confirmingDelete, completingDelivery,
          notifications, statusFilter, serviceTypeFilter, dateFilter,
          searchTerm, clock, calls, numCalls, db, nextId>>

\* The 'ALL' choice of the status and service type filters.
All == "ALL"

\* src line 90: the status filter a role starts with.
InitialStatusFilter(r) == IF r = "DELIVERY" THEN Pending ELSE All

\* useState<... | null>(null) of role and of error.
NoRole == ""
NoError == ""
LoadErrorText == "Failed to load service requests. Please try again later."

Ids(list) == { list[i].id : i \in 1..Len(list) }

\* Date.now(): the clock may or may not have advanced since the last reading.
ClockReadings == {clock} \cup (IF clock < MaxClock THEN {clock + 1} ELSE {})
Now(t) == ClockBase + t

\* A call in flight.  `id` is the target the handler's closure holds,
\* `stage` is "sent" until the service has answered and "answered" after,
\* `cid` tells apart calls in flight that are otherwise the same.
Call(op, id, payload, upd) ==
    [cid |-> CHOOSE k \in 1..(Cardinality(calls) + 1) :
                /\ \A c \in calls :
                      ~(c.op = op /\ c.id = id /\ c.payload = payload
                        /\ c.upd = upd /\ c.cid = k)
                /\ \A j \in 1..(k - 1) : \E c \in calls :
                      c.op = op /\ c.id = id /\ c.payload = payload
                      /\ c.upd = upd /\ c.cid = j,
     op |-> op, id |-> id, payload |-> payload,
     upd |-> upd, stage |-> "sent", resp |-> NoResponse]

Issue(c) ==
    /\ numCalls < MaxCalls
    /\ calls' = calls \cup {c}
    /\ numCalls' = numCalls + 1

Answer(c, resp) ==
    calls' = (calls \ {c}) \cup {[c EXCEPT !.stage = "answered", !.resp = resp]}

\* ------------------------------------------------------------ notifications
\* addNotification that puts the newest message first.
AddNotificationAtHead(current, t, message, type) ==
    <<[id |-> <<"notif-", Now(t)>>, message |-> message, type |-> type]>>
        \o current

\* addNotification: id from Date.now(), appended to the queue.
AddNotification(current, t, message, type) ==
    Append(current,
           [id |-> <<"notif-", Now(t)>>, message |-> message, type |-> type])

\* removeNotification: filter(n => n.id !== id).
RemoveNotificationFilter(current, id) ==
    SelectSeq(current, LAMBDA n : n.id # id)

Notify(message, type) ==
    \E t \in ClockReadings :
        /\ clock' = t
        /\ notifications' = AddNotification(notifications, t, message, type)

\* --------------------------------------------------------- list updaters
\* The create updater appending instead of prepending.
ApplyCreateAtEnd(prevRequests, newRequest) == Append(prevRequests, newRequest)

\* src line 111: [newRequest, ...prevRequests].
ApplyCreate(prevRequests, newRequest) == <<newRequest>> \o prevRequests

\* The update updater patching the matching entity's status only.
ApplyUpdateStatusOnly(prevRequests, id, updatedRequest) ==
    [i \in 1..Len(prevRequests) |->
        IF prevRequests[i].id = id
        THEN [prevRequests[i] EXCEPT !.status = updatedRequest.status]
        ELSE prevRequests[i]]

\* src lines 128-132 and 165-169: map(req => req.id === id ? updated : req).
ApplyUpdate(prevRequests, id, updatedRequest) ==
    [i \in 1..Len(prevRequests) |->
        IF prevRequests[i].id = id THEN updatedRequest ELSE prevRequests[i]]

\* The delete updater removing the first entity of the list.
ApplyDeleteFirst(prevRequests, id) ==
    IF prevRequests = <<>> THEN <<>> ELSE Tail(prevRequests)

\* src line 186: filter(req => req.id !== id).
ApplyDelete(prevRequests, id) ==
    SelectSeq(prevRequests, LAMBDA req : req.id # id)

\* The load updater merging the fetched list into the previous one.
ApplyLoadMerge(prevRequests, fetchedRequests) ==
    fetchedRequests
        \o SelectSeq(prevRequests, LAMBDA req : req.id \notin Ids(fetchedRequests))

\* src line 76: setRequests(fetchedRequests).
ApplyLoad(prevRequests, fetchedRequests) == fetchedRequests

\* ------------------------------------------------------------------- Init
Init ==
    /\ role = NoRole
    /\ isAuthenticated = FALSE
    /\ mounted = FALSE
    /\ requests = <<>>
    /\ isLoading = TRUE
    /\ error = NoError
    /\ confirmingComplete = Null
    /\ confirmingDelete = Null
    /\ completingDelivery = Null
    /\ notifications = <<>>
    /\ statusFilter = All
    /\ serviceTypeFilter = All
    /\ dateFilter = <<>>
    /\ searchTerm = <<>>
    /\ clock = 0
    /\ calls = {}
    /\ numCalls = 0
    /\ db \in SeedDbs
    /\ nextId = Len(db) + 1

\* -------------------------------------------------------------------- App
HandleRoleSelect(selectedRole) ==
    /\ role = NoRole
    /\ role' = selectedRole
    /\ UNCHANGED <<viewVars, isAuthenticated, mounted, storeVars, flowVars,
                   notifications, clock, calls, numCalls, serverVars>>

HandleLoginSuccess ==
    /\ role # NoRole
    /\ ~isAuthenticated
    /\ isAuthenticated' = TRUE
    /\ UNCHANGED <<viewVars, role, mounted, storeVars, flowVars, notifications, clock,
                   calls, numCalls, serverVars>>

\* ----------------------------------------------------------- loadRequests
\* MainApplication is mounted (its filters take their initial values) and
\* the mount effect runs: loadRequests up to its await.
LoadRequests ==
    /\ isAuthenticated
    /\ ~mounted
    /\ mounted' = TRUE
    /\ isLoading' = TRUE
    /\ error' = NoError
    /\ Issue(Call("load", Null, NoPayload, NoUpdates))
    /\ statusFilter' = InitialStatusFilter(role)
    /\ UNCHANGED <<serviceTypeFilter, dateFilter, searchTerm>>
    /\ UNCHANGED <<role, isAuthenticated, requests, flowVars, notifications,
                   clock, serverVars>>

\* The finally clause leaving the flag set.
LoadFinallyKeeps(loading) == loading

\* src lines 81-83: finally { setIsLoading(false) }.
LoadFinally(loading) == FALSE

LoadRequestsResolved(c) ==
    /\ c \in calls /\ c.op = "load" /\ c.stage = "answered"
    /\ ~GetRequestsThrows(c.resp)
    /\ requests' = ApplyLoad(requests, GetRequests(c.resp))
    /\ isLoading' = LoadFinally(isLoading)
    /\ calls' = calls \ {c}
    /\ UNCHANGED <<viewVars, appVars, error, flowVars, notifications, clock, numCalls,
                   serverVars>>

LoadRequestsRejected(c) ==
    /\ c \in calls /\ c.op = "load" /\ c.stage = "answered"
    /\ GetRequestsThrows(c.resp)
    /\ error' = LoadErrorText
    /\ Notify("Failed to load service requests from the server.", "error")
    /\ isLoading' = LoadFinally(isLoading)
    /\ calls' = calls \ {c}
    /\ UNCHANGED <<viewVars, appVars, requests, flowVars, numCalls, serverVars>>

\* ------------------------------------------------------------- addRequest
\* The request form is rendered for the requester role, also while loading.
AddRequest(request) ==
    /\ mounted /\ role = "REQUEST"
    /\ Issue(Call("create", Null, request, NoUpdates))
    /\ UNCHANGED <<viewVars, appVars, storeVars, flowVars, notifications, clock,
                   serverVars>>

AddRequestResolved(c) ==
    /\ c \in calls /\ c.op = "create" /\ c.stage = "answered"
    /\ ~CreateRequestThrows(c.resp)
    /\ requests' = ApplyCreate(requests, CreateRequest(c.resp))
    /\ Notify("Service request created successfully.", "success")
    /\ calls' = calls \ {c}
    /\ UNCHANGED <<viewVars, appVars, isLoading, error, flowVars, numCalls, serverVars>>

AddRequestRejected(c) ==
    /\ c \in calls /\ c.op = "create" /\ c.stage = "answered"
    /\ CreateRequestThrows(c.resp)
    /\ Notify("Failed to create service request.", "error")
    /\ calls' = calls \ {c}
    /\ UNCHANGED <<viewVars, appVars, storeVars, flowVars, numCalls, serverVars>>

\* ---------------------------------------------------------- complete flow
\* RequestListPanel renders the list only when not loading and no error.
ListVisible == mounted /\ ~isLoading /\ error = NoError

HandleInitiateComplete(id) ==
    /\ ListVisible /\ role = "REQUEST"
    /\ id \in Ids(requests)
    /\ confirmingComplete' = id
    /\ UNCHANGED <<viewVars, appVars, storeVars, confirmingDelete, completingDelivery,
                   notifications, clock, calls, numCalls, serverVars>>

\* handleConfirmComplete up to its await.
HandleConfirmComplete ==
    /\ mounted
    /\ confirmingComplete # Null
    /\ \E t \in ClockReadings :
        /\ clock' = t
        /\ Issue(Call("complete", confirmingComplete, NoPayload,
                      CompleteUpdates(Now(t))))
    /\ UNCHANGED <<viewVars, appVars, storeVars, flowVars, notifications, serverVars>>

\* The continuation of handleConfirmComplete adding the entity it was
\* answered with when the list has none of that id.
HandleConfirmCompleteResolvedUpsert(c) ==
    /\ c \in calls /\ c.op = "complete" /\ c.stage = "answered"
    /\ ~UpdateRequestThrows(c.resp)
    /\ requests' = IF c.id \in Ids(requests)
                   THEN ApplyUpdate(requests, c.id, UpdateRequest(c.resp))
                   ELSE <<UpdateRequest(c.resp)>> \o requests
    /\ confirmingComplete' = Null
    /\ Notify("Request marked as complete.", "info")
    /\ calls' = calls \ {c}
    /\ UNCHANGED <<viewVars, appVars, isLoading, error, confirmingDelete,
                   completingDelivery, numCalls, serverVars>>

HandleConfirmCompleteResolved(c) ==
    /\ c \in calls /\ c.op = "complete" /\ c.stage = "answered"
    /\ ~UpdateRequestThrows(c.resp)
    /\ requests' = ApplyUpdate(requests, c.id, UpdateRequest(c.resp))
    /\ confirmingComplete' = Null
    /\ Notify("Request marked as complete.", "info")
    /\ calls' = calls \ {c}
    /\ UNCHANGED <<viewVars, appVars, isLoading, error, confirmingDelete,
                   completingDelivery, numCalls, serverVars>>

HandleConfirmCompleteRejected(c) ==
    /\ c \in calls /\ c.op = "complete" /\ c.stage = "answered"
    /\ UpdateRequestThrows(c.resp)
    /\ Notify("Failed to mark request as complete.", "error")
    /\ calls' = calls \ {c}
    /\ UNCHANGED <<viewVars, appVars, storeVars, flowVars, numCalls, serverVars>>

HandleCancelComplete ==
    /\ mounted
    /\ confirmingComplete # Null
    /\ confirmingComplete' = Null
    /\ UNCHANGED <<viewVars, appVars, storeVars, confirmingDelete, completingDelivery,
                   notifications, clock, calls, numCalls, serverVars>>

\* ---------------------------------------------------------- delivery flow
\* onComplete of the list is setCompletingDelivery for the delivery role.
SetCompletingDelivery(id) ==
    /\ ListVisible /\ role = "DELIVERY"
    /\ id \in Ids(requests)
    /\ completingDelivery' = id
    /\ UNCHANGED <<viewVars, appVars, storeVars, confirmingComplete, confirmingDelete,
                   notifications, clock, calls, numCalls, serverVars>>

\* requests.find(r => r.id === completingDelivery): the first match.
Find(list, id) ==
    list[CHOOSE i \in 1..Len(list) :
            list[i].id = id /\ \A j \in 1..(i - 1) : list[j].id # id]

\* handleConfirmCompleteDelivery calling setHours on the target's own
\* requestTime instead of on a copy of it.
HandleConfirmCompleteDeliveryInPlace(deliveryStaffName, deliveryStaffNumber, completionTimeStr) ==
    /\ mounted
    /\ completingDelivery # Null
    /\ completingDelivery \in Ids(requests)
    /\ LET reqToUpdate == Find(requests, completingDelivery)
           completionDate ==
               CompletionDate(reqToUpdate.requestTime, completionTimeStr)
       IN /\ Issue(Call("delivery", completingDelivery, NoPayload,
                        DeliveryUpdates(completionDate, deliveryStaffName,
                                        deliveryStaffNumber)))
          /\ requests' =
                 [i \in 1..Len(requests) |->
                     IF requests[i] = reqToUpdate
                     THEN [requests[i] EXCEPT !.requestTime = completionDate]
                     ELSE requests[i]]
    /\ UNCHANGED <<viewVars, appVars, isLoading, error, flowVars,
                   notifications, clock, serverVars>>

\* handleConfirmCompleteDelivery up to its await: the target is found and
\* the update is sent.
HandleConfirmCompleteDelivery(deliveryStaffName, deliveryStaffNumber, completionTimeStr) ==
    /\ mounted
    /\ completingDelivery # Null
    /\ completingDelivery \in Ids(requests)
    /\ LET reqToUpdate == Find(requests, completingDelivery)
           completionDate ==
               CompletionDate(reqToUpdate.requestTime, completionTimeStr)
       IN Issue(Call("delivery", completingDelivery, NoPayload,
                     DeliveryUpdates(completionDate, deliveryStaffName,
                                     deliveryStaffNumber)))
    /\ UNCHANGED <<viewVars, appVars, storeVars, flowVars, notifications, clock,
                   serverVars>>

\* The not-found branch without the lookup: the update is sent for the
\* pending id although the list holds no such entity.
HandleConfirmCompleteDeliveryUnchecked ==
    /\ mounted
    /\ completingDelivery # Null
    /\ completingDelivery \notin Ids(requests)
    /\ Issue(Call("delivery", completingDelivery, NoPayload, NoUpdates))
    /\ UNCHANGED <<viewVars, appVars, storeVars, flowVars, notifications,
                   clock, serverVars>>

\* handleConfirmCompleteDelivery when the target is not in the list: the
\* Error thrown inside the try is caught at once.
HandleConfirmCompleteDeliveryNotFound ==
    /\ mounted
    /\ completingDelivery # Null
    /\ completingDelivery \notin Ids(requests)
    /\ numCalls < MaxCalls
    /\ numCalls' = numCalls + 1
    /\ Notify("Failed to complete task.", "error")
    /\ UNCHANGED <<viewVars, appVars, storeVars, flowVars, calls, serverVars>>

HandleConfirmCompleteDeliveryResolved(c) ==
    /\ c \in calls /\ c.op = "delivery" /\ c.stage = "answered"
    /\ ~UpdateRequestThrows(c.resp)
    /\ requests' = ApplyUpdate(requests, c.id, UpdateRequest(c.resp))
    /\ completingDelivery' = Null
    /\ Notify("Task completed successfully.", "success")
    /\ calls' = calls \ {c}
    /\ UNCHANGED <<viewVars, appVars, isLoading, error, confirmingComplete,
                   confirmingDelete, numCalls, serverVars>>

HandleConfirmCompleteDeliveryRejected(c) ==
    /\ c \in calls /\ c.op = "delivery" /\ c.stage = "answered"
    /\ UpdateRequestThrows(c.resp)
    /\ Notify("Failed to complete task.", "error")
    /\ calls' = calls \ {c}
    /\ UNCHANGED <<viewVars, appVars, storeVars, flowVars, numCalls, serverVars>>

\* onCancel of the delivery dialog: () => setCompletingDelivery(null).
CancelCompleteDelivery ==
    /\ mounted
    /\ completingDelivery # Null
    /\ completingDelivery' = Null
    /\ UNCHANGED <<viewVars, appVars, storeVars, confirmingComplete, confirmingDelete,
                   notifications, clock, calls, numCalls, serverVars>>

\* ------------------------------------------------------------ delete flow
HandleInitiateDelete(id) ==
    /\ ListVisible
    /\ id \in Ids(requests)
    /\ confirmingDelete' = id
    /\ UNCHANGED <<viewVars, appVars, storeVars, confirmingComplete, completingDelivery,
                   notifications, clock, calls, numCalls, serverVars>>

\* handleConfirmDelete removing the entity before the call resolves.
HandleConfirmDeleteOptimistic ==
    /\ mounted
    /\ confirmingDelete # Null
    /\ requests' = SelectSeq(requests, LAMBDA req : req.id # confirmingDelete)
    /\ Issue(Call("delete", confirmingDelete, NoPayload, NoUpdates))
    /\ UNCHANGED <<viewVars, appVars, isLoading, error, flowVars, notifications, clock,
                   serverVars>>

\* handleConfirmDelete up to its await.
HandleConfirmDelete ==
    /\ mounted
    /\ confirmingDelete # Null
    /\ Issue(Call("delete", confirmingDelete, NoPayload, NoUpdates))
    /\ UNCHANGED <<viewVars, appVars, storeVars, flowVars, notifications, clock,
                   serverVars>>

HandleConfirmDeleteResolved(c) ==
    /\ c \in calls /\ c.op = "delete" /\ c.stage = "answered"
    /\ ~DeleteRequestThrows(c.resp)
    /\ requests' = ApplyDelete(requests, c.id)
    /\ confirmingDelete' = Null
    /\ Notify("Request has been deleted.", "info")
    /\ calls' = calls \ {c}
    /\ UNCHANGED <<viewVars, appVars, isLoading, error, confirmingComplete,
                   completingDelivery, numCalls, serverVars>>

\* The catch branch of handleConfirmDelete closing the dialog as well.
HandleConfirmDeleteRejectedClears(c) ==
    /\ c \in calls /\ c.op = "delete" /\ c.stage = "answered"
    /\ DeleteRequestThrows(c.resp)
    /\ Notify("Failed to delete request.", "error")
    /\ confirmingDelete' = Null
    /\ calls' = calls \ {c}
    /\ UNCHANGED <<viewVars, appVars, storeVars, confirmingComplete,
                   completingDelivery, numCalls, serverVars>>

HandleConfirmDeleteRejected(c) ==
    /\ c \in calls /\ c.op = "delete" /\ c.stage = "answered"
    /\ DeleteRequestThrows(c.resp)
    /\ Notify("Failed to delete request.", "error")
    /\ calls' = calls \ {c}
    /\ UNCHANGED <<viewVars, appVars, storeVars, flowVars, numCalls, serverVars>>

HandleCancelDelete ==
    /\ mounted
    /\ confirmingDelete # Null
    /\ confirmingDelete' = Null
    /\ UNCHANGED <<viewVars, appVars, storeVars, confirmingComplete, completingDelivery,
                   notifications, clock, calls, numCalls, serverVars>>

\* ----------------------------------------------------- removeNotification
RemoveNotification(id) ==
    /\ \E i \in 1..Len(notifications) : notifications[i].id = id
    /\ notifications' = RemoveNotificationFilter(notifications, id)
    /\ UNCHANGED <<viewVars, appVars, storeVars, flowVars, clock, calls, numCalls,
                   serverVars>>

\* ------------------------------------------------------ the remote service
DbIds == { db[i].id : i \in 1..Len(db) }

\* GET /requests.
ServerList(c) ==
    /\ c \in calls /\ c.stage = "sent" /\ c.op = "load"
    /\ Answer(c, ListResponse(db))
    /\ UNCHANGED <<viewVars, appVars, storeVars, flowVars, notifications, clock,
                   numCalls, serverVars>>

\* POST /requests: the service assigns the id and the request time.
ServerCreate(c) ==
    /\ c \in calls /\ c.stage = "sent" /\ c.op = "create"
    /\ \E t \in ServerTimes :
        LET rec == ServerNewRecord(nextId, c.payload, t)
        IN /\ db' = Append(db, rec)
           /\ Answer(c, RecordResponse(rec))
    /\ nextId' = nextId + 1
    /\ UNCHANGED <<viewVars, appVars, storeVars, flowVars, notifications, clock,
                   numCalls>>

\* PATCH /requests/{id} of a record the service holds.
ServerUpdate(c) ==
    /\ c \in calls /\ c.stage = "sent" /\ c.op \in {"complete", "delivery"}
    /\ c.id \in DbIds
    /\ db' = [i \in 1..Len(db) |->
                 IF db[i].id = c.id THEN ServerPatch(db[i], c.upd) ELSE db[i]]
    /\ Answer(c, RecordResponse(
                    ServerPatch(db[CHOOSE i \in 1..Len(db) : db[i].id = c.id],
                                c.upd)))
    /\ UNCHANGED <<viewVars, appVars, storeVars, flowVars, notifications, clock,
                   numCalls, nextId>>

\* DELETE /requests/{id} of a record the service holds.
ServerDelete(c) ==
    /\ c \in calls /\ c.stage = "sent" /\ c.op = "delete"
    /\ c.id \in DbIds
    /\ db' = SelectSeq(db, LAMBDA rec : rec.id # c.id)
    /\ Answer(c, NoContentResponse)
    /\ UNCHANGED <<viewVars, appVars, storeVars, flowVars, notifications, clock,
                   numCalls, nextId>>

\* PATCH or DELETE of an id the service does not hold: not found.
ServerNotFound(c) ==
    /\ c \in calls /\ c.stage = "sent"
    /\ c.op \in {"complete", "delivery", "delete"}
    /\ c.id \notin DbIds
    /\ Answer(c, ErrorResponse)
    /\ UNCHANGED <<viewVars, appVars, storeVars, flowVars, notifications, clock,
                   numCalls, serverVars>>

\* Any call may fail: the service answers with an error status or the
\* transport fails, and the service's records stay as they are.
ServerFail(c) ==
    /\ c \in calls /\ c.stage = "sent"
    /\ Answer(c, ErrorResponse)
    /\ UNCHANGED <<viewVars, appVars, storeVars, flowVars, notifications, clock,
                   numCalls, serverVars>>

\* ------------------------------------------------------------------ views
\* src lines 259-268: the comparator of sortedRequests; negative when a goes
\* first, positive when b does.  A difference with an invalid Date is NaN,
\* which sort takes for 0.
CompareRequestsOldestFirst(a, b) ==
    IF a.status = Pending /\ b.status = Completed THEN 0 - 1
    ELSE IF a.status = Completed /\ b.status = Pending THEN 1
    ELSE IF a.requestTime = NaN \/ b.requestTime = NaN THEN 0
    ELSE a.requestTime - b.requestTime

CompareRequests(a, b) ==
    IF a.status = Pending /\ b.status = Completed THEN 0 - 1
    ELSE IF a.status = Completed /\ b.status = Pending THEN 1
    ELSE IF a.requestTime = NaN \/ b.requestTime = NaN THEN 0
    ELSE b.requestTime - a.requestTime

\* One step of Array.prototype.sort, which is stable: x goes behind every
\* element the comparator does not put after it.
RECURSIVE InsertSorted(_, _)
InsertSorted(sorted, x) ==
    IF sorted = <<>> THEN <<x>>
    ELSE IF CompareRequests(sorted[Len(sorted)], x) <= 0
         THEN Append(sorted, x)
         ELSE Append(InsertSorted(SubSeq(sorted, 1, Len(sorted) - 1), x),
                     sorted[Len(sorted)])

\* src lines 258-269: [...requests].sort(comparator).
RECURSIVE SortedRequests(_)
SortedRequests(list) ==
    IF list = <<>> THEN <<>>
    ELSE InsertSorted(SortedRequests(SubSeq(list, 1, Len(list) - 1)),
                      list[Len(list)])

\* String.prototype.toLowerCase on character codes ('A' is 65, 'a' is 97).
ToLowerCase(s) ==
    [i \in 1..Len(s) |-> IF s[i] \in 65..90 THEN s[i] + 32 ELSE s[i]]

\* String.prototype.includes: t occurs in s as a contiguous piece.
Includes(s, t) ==
    \E i \in 0..(Len(s) - Len(t)) : SubSeq(s, i + 1, i + Len(t)) = t

\* String.prototype.trim: white space (space, tab, line feed, carriage
\* return) taken off both ends.
IsWhiteSpace(ch) == ch \in {32, 9, 10, 13}
RECURSIVE Trim(_)
Trim(s) ==
    IF s = <<>> THEN s
    ELSE IF IsWhiteSpace(s[1]) THEN Trim(Tail(s))
    ELSE IF IsWhiteSpace(s[Len(s)]) THEN Trim(SubSeq(s, 1, Len(s) - 1))
    ELSE s

\* "1970-01-" and "Invalid Date" as character codes.
Text1970Jan == <<49, 57, 55, 48, 45, 48, 49, 45>>
TextInvalidDate == <<73, 110, 118, 97, 108, 105, 100, 32, 68, 97, 116, 101>>

\* Date.prototype.toLocaleDateString('en-CA'): YYYY-MM-DD of the local
\* calendar day (the days of this model lie in January 1970).
ToLocaleDateString(t) ==
    IF t = NaN THEN TextInvalidDate
    ELSE LET dayOfMonth == ((t + TzOffsetMs) \div MsPerDay) + 1
         IN Text1970Jan \o <<Digit0 + (dayOfMonth \div 10),
                             Digit0 + (dayOfMonth % 10)>>

\* The filters of filteredRequests without the service type filter.
FilteredRequestsAnyType(sorted, sf, tf, df, st) ==
    SelectSeq(sorted, LAMBDA req :
        /\ sf = All \/ req.status = sf
        /\ df = <<>> \/ ToLocaleDateString(req.requestTime) = df
        /\ \/ Trim(st) = <<>>
           \/ Includes(ToLowerCase(req.flightNumber), ToLowerCase(st))
           \/ Includes(ToLowerCase(req.aircraftBay), ToLowerCase(st))
           \/ Includes(ToLowerCase(req.staffName), ToLowerCase(st)))

\* src lines 273-291: filteredRequests, from the sorted list and the values
\* of the status, service type and date filters and of the search term.
FilteredRequests(sorted, sf, tf, df, st) ==
    SelectSeq(sorted, LAMBDA req :
        /\ sf = All \/ req.status = sf
        /\ tf = All \/ req.serviceType = tf
        /\ df = <<>> \/ ToLocaleDateString(req.requestTime) = df
        /\ \/ Trim(st) = <<>>
           \/ Includes(ToLowerCase(req.flightNumber), ToLowerCase(st))
           \/ Includes(ToLowerCase(req.aircraftBay), ToLowerCase(st))
           \/ Includes(ToLowerCase(req.staffName), ToLowerCase(st)))

\* src lines 293-295: filteredDeliveryRequests.
FilteredDeliveryRequests(sorted, sf) ==
    SelectSeq(sorted, LAMBDA req : sf = All \/ req.status = sf)

\* Every role is handed the fully filtered list.
RequestsToShowFiltered(r, list, sf, tf, df, st) ==
    FilteredRequests(SortedRequests(list), sf, tf, df, st)

\* requestsToShow of the RequestListPanel each role renders.
RequestsToShow(r, list, sf, tf, df, st) ==
    IF r = "REQUEST"
    THEN FilteredRequests(SortedRequests(list), sf, tf, df, st)
    ELSE FilteredDeliveryRequests(SortedRequests(list), sf)

\* What the filter controls can be set to: "1970-01-02" and "1970-01-03"
\* from the date input; " ", "B12" and "al" typed into the search input.
StatusFilters == {All, Pending, Completed}
ServiceTypeFilters == {All, Connect, Disconnect, Replace}
TextJan2 == Text1970Jan \o <<48, 50>>
TextJan3 == Text1970Jan \o <<48, 51>>
DateFilters == {<<>>, TextJan2, TextJan3}
TextBlank == <<32>>
TextLowerAl == <<97, 108>>
SearchTerms == {<<>>, TextBlank, TextB12, TextLowerAl}

\* The status buttons, shown to both roles.
SetStatusFilter(status) ==
    /\ mounted
    /\ statusFilter' = status
    /\ UNCHANGED <<serviceTypeFilter, dateFilter, searchTerm, appVars,
                   storeVars, flowVars, notifications, clock, calls,
                   numCalls, serverVars>>

\* The service type buttons, the date input and the search input, shown to
\* the requester role only.
SetServiceTypeFilter(type) ==
    /\ mounted /\ role = "REQUEST"
    /\ serviceTypeFilter' = type
    /\ UNCHANGED <<statusFilter, dateFilter, searchTerm, appVars, storeVars,
                   flowVars, notifications, clock, calls, numCalls,
                   serverVars>>

SetDateFilter(value) ==
    /\ mounted /\ role = "REQUEST"
    /\ dateFilter' = value
    /\ UNCHANGED <<statusFilter, serviceTypeFilter, searchTerm, appVars,
                   storeVars, flowVars, notifications, clock, calls,
                   numCalls, serverVars>>

SetSearchTerm(value) ==
    /\ mounted /\ role = "REQUEST"
    /\ searchTerm' = value
    /\ UNCHANGED <<statusFilter, serviceTypeFilter, dateFilter, appVars,
                   storeVars, flowVars, notifications, clock, calls,
                   numCalls, serverVars>>

\* ------------------------------------------------------------------- Next
Next ==
    \/ \E r \in {"REQUEST", "DELIVERY"} : HandleRoleSelect(r)
    \/ HandleLoginSuccess
    \/ LoadRequests
    \/ \E c \in calls : LoadRequestsResolved(c)
    \/ \E c \in calls : LoadRequestsRejected(c)
    \/ \E p \in CreatePayloads : AddRequest(p)
    \/ \E c \in calls : AddRequestResolved(c)
    \/ \E c \in calls : AddRequestRejected(c)
    \/ \E id \in Ids(requests) : HandleInitiateComplete(id)
    \/ HandleConfirmComplete
    \/ \E c \in calls : HandleConfirmCompleteResolved(c)
    \/ \E c \in calls : HandleConfirmCompleteRejected(c)
    \/ HandleCancelComplete
    \/ \E id \in Ids(requests) : SetCompletingDelivery(id)
    \/ \E n \in DeliveryNames, m \in DeliveryNumbers, s \in DeliveryTimes :
           HandleConfirmCompleteDelivery(n, m, s)
    \/ HandleConfirmCompleteDeliveryNotFound
    \/ \E c \in calls : HandleConfirmCompleteDeliveryResolved(c)
    \/ \E c \in calls : HandleConfirmCompleteDeliveryRejected(c)
    \/ CancelCompleteDelivery
    \/ \E id \in Ids(requests) : HandleInitiateDelete(id)
    \/ HandleConfirmDelete
    \/ \E c \in calls : HandleConfirmDeleteResolved(c)
    \/ \E c \in calls : HandleConfirmDeleteRejected(c)
    \/ HandleCancelDelete
    \/ \E i \in 1..Len(notifications) : RemoveNotification(notifications[i].id)
    \/ \E c \in calls : ServerList(c)
    \/ \E c \in calls : ServerCreate(c)
    \/ \E c \in calls : ServerUpdate(c)
    \/ \E c \in calls : ServerDelete(c)
    \/ \E c \in calls : ServerNotFound(c)
    \/ \E c \in calls : ServerFail(c)

Spec == Init /\ [][Next]_vars

TypeOK ==
    /\ role \in {NoRole, "REQUEST", "DELIVERY"}
    /\ numCalls \in 0..MaxCalls
    /\ clock \in 0..MaxClock
    /\ Cardinality(calls) <= MaxCalls

\* A step of the list call: the service answers it, or the continuation of
\* loadRequests runs on the answer.
LoadStep ==
    \E c \in calls :
        \/ c.op = "load" /\ (ServerList(c) \/ ServerFail(c))
        \/ LoadRequestsResolved(c)
        \/ LoadRequestsRejected(c)

\* The remote call eventually resolves or rejects, and the continuation of
\* an awaited promise is always run.
LiveSpec == Spec /\ WF_vars(LoadStep)

\* ------------------------------------------------- the views on their own
\* Longest list the views are computed for.
MaxViewLen == 3

\* "Bo", "c3", "ab12", "A1", "QF2" as character codes.
TextBo == <<66, 111>>
TextLowerC3 == <<99, 51>>
TextLowerAb12 == <<97, 98, 49, 50>>
TextA1 == <<65, 49>>
TextQF2 == <<81, 70, 50>>

\* Four records the service may hold: two pending and two completed ones,
\* of three service types, requested on three local calendar days.
ViewRecords ==
    { SeedRecord(1),
      ServerNewRecord(2, [staffName |-> TextBo, staffNumber |-> Text7,
                          aircraftBay |-> TextLowerC3,
                          flightNumber |-> TextLowerAb12,
                          serviceType |-> Disconnect,
                          aircraftEta |-> Text1000],
                      MkDate(2, 23, 30, 15, 250)),
      ServerPatch(ServerNewRecord(3, [staffName |-> TextAl,
                                      staffNumber |-> Text7,
                                      aircraftBay |-> TextA1,
                                      flightNumber |-> TextQF2,
                                      serviceType |-> Connect,
                                      aircraftEta |-> Text1000],
                                  MkDate(2, 5, 0, 0, 0)),
                  CompleteUpdates(MkDate(2, 6, 0, 0, 0))),
      ServerPatch(ServerNewRecord(4, [staffName |-> TextBo,
                                      staffNumber |-> Text7,
                                      aircraftBay |-> TextB12,
                                      flightNumber |-> TextQF2,
                                      serviceType |-> Replace,
                                      aircraftEta |-> Text1000],
                                  MkDate(1, 8, 0, 0, 0)),
                  CompleteUpdates(MkDate(1, 9, 0, 0, 0))) }

\* The lists of at most MaxViewLen of these records, in every order.
ViewDbs ==
    { q \in UNION { [1..n -> ViewRecords] : n \in 0..MaxViewLen } :
        \A i, j \in 1..Len(q) : q[i].id = q[j].id => i = j }

\* A mounted MainApplication of either role right after its load resolved.
ViewInit ==
    /\ role \in {"REQUEST", "DELIVERY"}
    /\ isAuthenticated = TRUE
    /\ mounted = TRUE
    /\ db \in ViewDbs
    /\ requests = TransformAll(db)
    /\ isLoading = FALSE
    /\ error = NoError
    /\ confirmingComplete = Null
    /\ confirmingDelete = Null
    /\ completingDelivery = Null
    /\ notifications = <<>>
    /\ statusFilter = InitialStatusFilter(role)
    /\ serviceTypeFilter = All
    /\ dateFilter = <<>>
    /\ searchTerm = <<>>
    /\ clock = 0
    /\ calls = {}
    /\ numCalls = 1
    /\ nextId = Cardinality(ViewRecords) + 1

\* The user works the filter controls.
ViewNext ==
    \/ \E status \in StatusFilters : SetStatusFilter(status)
    \/ \E type \in ServiceTypeFilters : SetServiceTypeFilter(type)
    \/ \E value \in DateFilters : SetDateFilter(value)
    \/ \E value \in SearchTerms : SetSearchTerm(value)

ViewSpec == ViewInit /\ [][ViewNext]_vars

\* The list the mounted role is shown.
RequestsShown ==
    RequestsToShow(role, requests, statusFilter, serviceTypeFilter,
                   dateFilter, searchTerm)

\* ----------------------------------------- the delivery flow on its own
\* "00:00" and "23:59" as character codes.
Time0000 == <<48, 48, 58, 48, 48>>
Time2359 == <<50, 51, 58, 53, 57>>

\* Times of day the delivery dialog submits, and request times of the one
\* record the service holds: local 10:00 of day 1, local 01:30:15.250 of
\* day 3 and local 00:00:00.001 of day 1.
DialogTimes == {Time1430, Time0705, Time0000, Time2359}
DeliveryRequestTimes ==
    { MkDate(1, 8, 0, 0, 0), MkDate(2, 23, 30, 15, 250),
      MkDate(0, 22, 0, 0, 1) }
DeliveryDbs ==
    { <<ServerNewRecord(1, CHOOSE p \in CreatePayloads : TRUE, t)>> :
        t \in DeliveryRequestTimes }

\* A mounted MainApplication of the delivery role right after its load
\* resolved, at any reading of the clock.
DeliveryInit ==
    /\ role = "DELIVERY"
    /\ isAuthenticated = TRUE
    /\ mounted = TRUE
    /\ db \in DeliveryDbs
    /\ requests = TransformAll(db)
    /\ isLoading = FALSE
    /\ error = NoError
    /\ confirmingComplete = Null
    /\ confirmingDelete = Null
    /\ completingDelivery = Null
    /\ notifications = <<>>
    /\ statusFilter = InitialStatusFilter(role)
    /\ serviceTypeFilter = All
    /\ dateFilter = <<>>
    /\ searchTerm = <<>>
    /\ clock \in 0..MaxClock
    /\ calls = {}
    /\ numCalls = 1
    /\ nextId = 2

\* The delivery completion flow and the service's answers to it.
DeliveryNext ==
    \/ \E id \in Ids(requests) : SetCompletingDelivery(id)
    \/ \E n \in DeliveryNames, m \in DeliveryNumbers, s \in DialogTimes :
           HandleConfirmCompleteDelivery(n, m, s)
    \/ \E c \in calls : HandleConfirmCompleteDeliveryResolved(c)
    \/ \E c \in calls : HandleConfirmCompleteDeliveryRejected(c)
    \/ CancelCompleteDelivery
    \/ \E c \in calls : ServerUpdate(c)
    \/ \E c \in calls : ServerFail(c)

DeliverySpec == DeliveryInit /\ [][DeliveryNext]_vars

\* ------------------------------------------- answers outside the contract
\* A stored record as a body that lacks request_time.
UndatedRecord(rec) == [rec EXCEPT !.request_time = <<>>]

\* A 2xx answer whose body is not JSON (as the service gives for DELETE) to
\* a list, create or update call; the service's records stay as they are.
ServerAnswersNoBody(c) ==
    /\ c \in calls /\ c.stage = "sent"
    /\ c.op \in {"load", "create", "complete", "delivery"}
    /\ Answer(c, NoContentResponse)
    /\ UNCHANGED <<viewVars, appVars, storeVars, flowVars, notifications,
                   clock, numCalls, serverVars>>

\* A 2xx answer whose records lack request_time: the list of the stored
\* records, or the patched record of an update.
ServerAnswersUndated(c) ==
    /\ c \in calls /\ c.stage = "sent"
    /\ \/ /\ c.op = "load" /\ db # <<>>
          /\ Answer(c, ListResponse([i \in 1..Len(db) |->
                                        UndatedRecord(db[i])]))
          /\ db' = db
       \/ /\ c.op \in {"complete", "delivery"} /\ c.id \in DbIds
          /\ db' = [i \in 1..Len(db) |->
                       IF db[i].id = c.id THEN ServerPatch(db[i], c.upd)
                       ELSE db[i]]
          /\ Answer(c, RecordResponse(UndatedRecord(
                 ServerPatch(db[CHOOSE i \in 1..Len(db) : db[i].id = c.id],
                             c.upd))))
    /\ UNCHANGED <<viewVars, appVars, storeVars, flowVars, notifications,
                   clock, numCalls, nextId>>

\* The application with a service that may also answer outside the
\* contract.
DecodeNext ==
    \/ Next
    \/ \E c \in calls : ServerAnswersNoBody(c)
    \/ \E c \in calls : ServerAnswersUndated(c)

DecodeSpec == Init /\ [][DecodeNext]_vars

\* ----------------------------------------------------------------- claims
\* The step hands the answer of call c to the handler that awaits it.
Handled(c) == c \in calls /\ c.stage = "answered" /\ c \notin calls'

\* The awaited api function resolved (it did not throw).
Succeeded(c) ==
    IF c.op = "load" THEN c.resp.ok /\ c.resp.json /\ c.resp.array
    ELSE c.resp.ok

\* The step appends exactly one notification of the given type.
EnqueuesOne(type) ==
    /\ Len(notifications') = Len(notifications) + 1
    /\ SubSeq(notifications', 1, Len(notifications)) = notifications
    /\ notifications'[Len(notifications')].type = type

HasNotification(message) ==
    \E i \in 1..Len(notifications) : notifications[i].message = message

\* C1: every entity of the local list has status Completed exactly when its
\* completionTime is set.
C1_CompletedIffCompletionTime ==
    \A i \in 1..Len(requests) :
        (requests[i].status = Completed)
            <=> (requests[i].completionTime # Undefined)

\* C1 witness: a completed entity, with its completion time, is in the list.
C1_Witness ==
    \E i \in 1..Len(requests) :
        /\ requests[i].status = Completed
        /\ requests[i].completionTime # Undefined
        /\ requests[i].completionTime # NaN

\* C2: no two entities of the local list have the same id.
C2_IdsUnique ==
    \A i, j \in 1..Len(requests) :
        i # j => requests[i].id # requests[j].id

\* The records of the service, decoded.
ServerEntities == { TransformRequest(db[i]) : i \in 1..Len(db) }
LocalEntities == { requests[i] : i \in 1..Len(requests) }

\* C3: when no call is in flight and the load succeeded, the local list
\* holds exactly the service's records.
C3_LocalMirrorsServer ==
    (mounted /\ calls = {} /\ ~isLoading /\ error = NoError)
        => LocalEntities = ServerEntities

\* C4: the local list changes only in a step that handles a call that
\* resolved successfully.
C4_ChangeOnlyOnResolve ==
    [][requests' # requests
         => \E c \in calls : Handled(c) /\ Succeeded(c)]_vars

\* C4 witness: a create has resolved and its entity is in the list.
C4_Witness ==
    /\ requests # <<>>
    /\ HasNotification("Service request created successfully.")

\* C5: a step that handles a failed call leaves the list as it is (the
\* target of a failed delete is still there) and enqueues exactly one error
\* notification.
C5_FailureLeavesList ==
    [][\A c \in calls :
          (Handled(c) /\ ~Succeeded(c))
              => /\ requests' = requests
                 /\ (c.op = "delete" /\ c.id \in Ids(requests)
                        => c.id \in Ids(requests'))
                 /\ EnqueuesOne("error")]_vars

\* C5 witness: a delete has failed and its target is still in the list.
C5_Witness ==
    /\ HasNotification("Failed to delete request.")
    /\ confirmingDelete \in Ids(requests)

\* C6: a create that succeeds puts the returned entity in front of the
\* previous list; issuing the create changes nothing, and every id in the
\* list is one the service has already assigned.
C6_CreatePrepends ==
    /\ [][\A c \in calls :
             (Handled(c) /\ c.op = "create" /\ Succeeded(c))
                 => requests' = <<TransformRequest(c.resp.recs[1])>> \o requests
         ]_vars
    /\ [][numCalls' # numCalls => requests' = requests]_vars
    /\ [](\A id \in Ids(requests) : id < nextId)

\* C6 witness: the created entity stands before the one that was loaded.
C6_Witness ==
    /\ Len(requests) = 2
    /\ requests[1].id > requests[2].id
    /\ HasNotification("Service request created successfully.")

\* C7: an update that succeeds replaces the entities with the target id by
\* the returned entity and leaves every other entity and position as it is.
C7_UpdateReplacesById ==
    [][\A c \in calls :
          (Handled(c) /\ c.op \in {"complete", "delivery"} /\ Succeeded(c))
              => /\ Len(requests') = Len(requests)
                 /\ \A i \in 1..Len(requests) :
                       requests'[i] =
                           IF requests[i].id = c.id
                           THEN TransformRequest(c.resp.recs[1])
                           ELSE requests[i]]_vars

\* C7 witness: an update has replaced one entity next to an untouched one.
C7_Witness ==
    /\ HasNotification("Request marked as complete.")
    /\ \E i, j \in 1..Len(requests) :
          /\ requests[i].status = Completed
          /\ requests[j].status = Pending

\* C8: a delete that succeeds removes exactly the entities with the target
\* id, keeps the others in order and enqueues exactly one info notification.
C8_DeleteRemovesTarget ==
    [][\A c \in calls :
          (Handled(c) /\ c.op = "delete" /\ Succeeded(c))
              => /\ requests' = SelectSeq(requests, LAMBDA r : r.id # c.id)
                 /\ EnqueuesOne("info")]_vars

\* C8 witness: a delete has succeeded and another entity is still listed.
C8_Witness ==
    /\ HasNotification("Request has been deleted.")
    /\ requests # <<>>
    /\ Len(db) = Len(requests)

\* C9: a load that succeeds makes the list the decoded response, in its
\* order, whatever the list held before, and the load error is null.
C9_LoadReplaces ==
    [][\A c \in calls :
          (Handled(c) /\ c.op = "load" /\ Succeeded(c))
              => /\ Len(requests') = Len(c.resp.recs)
                 /\ \A i \in 1..Len(c.resp.recs) :
                       requests'[i] = TransformRequest(c.resp.recs[i])
                 /\ error' = NoError]_vars

\* C9 witness: the load has replaced a list that held a created entity
\* the response did not have.
C9_Witness ==
    /\ mounted /\ ~isLoading /\ error = NoError
    /\ HasNotification("Service request created successfully.")
    /\ numCalls = 2 /\ calls = {}
    /\ Len(requests) < Len(db)

LoadInFlight == \E c \in calls : c.op = "load"

\* C10: the loading flag is set while the load is in flight, every load
\* clears it in the end, and a failed load leaves the load error set.
C10_LoadingCleared ==
    /\ [](LoadInFlight => isLoading)
    /\ (LoadInFlight ~> ~isLoading)
    /\ [][\A c \in calls :
             (Handled(c) /\ c.op = "load" /\ ~Succeeded(c))
                 => ~isLoading' /\ error' # NoError]_vars

\* C10 witness: a failed load has cleared the flag and set the error.
C10_Witness ==
    /\ mounted /\ ~isLoading /\ error # NoError
    /\ ~LoadInFlight


\* The step appends exactly one notification at the tail of the queue.
AppendsOne ==
    /\ Len(notifications') = Len(notifications) + 1
    /\ SubSeq(notifications', 1, Len(notifications)) = notifications

\* The step is a dismissal of one of the queued notifications.
Dismisses ==
    \E i \in 1..Len(notifications) : RemoveNotification(notifications[i].id)

\* C11: the notification queue is append-only FIFO. Every finished create,
\* complete, delivery-completion or delete, whether it succeeded or failed,
\* and every failed load appends exactly one notification at the tail; a
\* step that is not a dismissal leaves the queued notifications in place and
\* in order.
C11_QueueAppendOnly ==
    [][ /\ \A c \in calls :
              (Handled(c) /\ (c.op # "load" \/ ~Succeeded(c))) => AppendsOne
        /\ Dismisses \/ AppendsOne \/ notifications' = notifications ]_vars

\* A load failure followed by a mutation outcome: two entries, in order.
C11_Witness ==
    /\ Len(notifications) >= 2
    /\ notifications[1].message =
           "Failed to load service requests from the server."
    /\ notifications[2].message = "Service request created successfully."

\* C12: dismissing notification id X removes exactly one entry, the one that
\* carries id X, and leaves all the others in their order.
C12_DismissRemovesOne ==
    [][ \A i \in 1..Len(notifications) :
            RemoveNotification(notifications[i].id) =>
                \E k \in 1..Len(notifications) :
                    /\ notifications[k].id = notifications[i].id
                    /\ notifications' =
                           SubSeq(notifications, 1, k - 1) \o
                           SubSeq(notifications, k + 1, Len(notifications))
      ]_vars

\* C13: no two notifications of the queue carry the same id.
C13_NotificationIdsUnique ==
    \A i, j \in 1..Len(notifications) :
        notifications[i].id = notifications[j].id => i = j

\* The step is a submission of the delivery dialog.
SubmitsDelivery ==
    \/ HandleConfirmCompleteDeliveryNotFound
    \/ \E n \in DeliveryNames, m \in DeliveryNumbers, s \in DeliveryTimes :
           HandleConfirmCompleteDelivery(n, m, s)

\* C18: a delivery completion submitted for a target that is no longer in
\* the local list fails locally: no remote call is issued, the list is
\* unchanged and exactly one error notification is enqueued.
C18_MissingTargetFailsLocally ==
    [][ (completingDelivery # Null /\ completingDelivery \notin Ids(requests)
         /\ SubmitsDelivery) =>
            /\ calls' = calls
            /\ requests' = requests
            /\ db' = db
            /\ EnqueuesOne("error") ]_vars

\* The delivery dialog is still open on a target that a delete removed, and
\* the failure has been reported.
C18_Witness ==
    /\ completingDelivery # Null
    /\ completingDelivery \notin Ids(requests)
    /\ HasNotification("Request has been deleted.")
    /\ HasNotification("Failed to complete task.")
    /\ calls = {}

\* The pending target of the flow that issues calls of kind op.
FlowTarget(op) ==
    IF op = "complete" THEN confirmingComplete
    ELSE IF op = "delete" THEN confirmingDelete
    ELSE IF op = "delivery" THEN completingDelivery
    ELSE Null

\* The calls issued by the three confirmation flows.
FlowOps == {"complete", "delete", "delivery"}

\* The step initiates one of the flows on an entity of the list.
Initiates(id) ==
    HandleInitiateComplete(id) \/ HandleInitiateDelete(id)
        \/ SetCompletingDelivery(id)

\* The step cancels one of the flows.
Cancels == HandleCancelComplete \/ HandleCancelDelete \/ CancelCompleteDelivery

\* Every flow is Idle until the application is mounted; an initiate makes a
\* target pending and a cancel clears one, both without a remote call.
FlowEdges ==
    /\ ~mounted => flowVars = <<Null, Null, Null>>
    /\ \A id \in Ids(requests) :
           Initiates(id) =>
               /\ id \in {confirmingComplete', confirmingDelete',
                          completingDelivery'}
               /\ calls' = calls
    /\ HandleCancelComplete => confirmingComplete' = Null
    /\ HandleCancelDelete => confirmingDelete' = Null
    /\ CancelCompleteDelivery => completingDelivery' = Null
    /\ Cancels => calls' = calls /\ numCalls' = numCalls

\* C19 as stated: each flow starts Idle, an initiate makes its target
\* pending, and once the call of a confirmed flow has finished the flow is
\* Idle again whatever the outcome; a cancel returns to Idle without a
\* remote call.
C19_IdleAfterAnyOutcome ==
    [][ /\ FlowEdges
        /\ \A c \in calls :
               (Handled(c) /\ c.op \in FlowOps) => FlowTarget(c.op)' = Null
      ]_vars

\* C19, amended: each flow starts Idle, an initiate makes its target pending
\* and a cancel returns to Idle without a remote call; once the call of a
\* confirmed flow has finished the flow is Idle again if the call succeeded,
\* and all three pending targets are as they were if it failed.
C19_IdleAfterSuccess ==
    [][ /\ FlowEdges
        /\ \A c \in calls :
               (Handled(c) /\ c.op \in FlowOps) =>
                   IF Succeeded(c) THEN FlowTarget(c.op)' = Null
                   ELSE flowVars' = flowVars
      ]_vars

\* A delete was refused and its confirmation is still pending.
C19_Witness ==
    /\ confirmingDelete # Null
    /\ HasNotification("Failed to delete request.")
    /\ calls = {}

\* C20: while the call of a flow is in flight, neither the cancel nor a
\* second confirm of that flow can be taken.
C20_NoCancelInFlight ==
    \A c \in calls :
        /\ c.op = "complete" =>
               ~ENABLED HandleCancelComplete /\ ~ENABLED HandleConfirmComplete
        /\ c.op = "delete" =>
               ~ENABLED HandleCancelDelete /\ ~ENABLED HandleConfirmDelete
        /\ c.op = "delivery" =>
               /\ ~ENABLED CancelCompleteDelivery
               /\ ~ENABLED SubmitsDelivery


\* How often entity e occurs in a list.
Occurrences(list, e) == Cardinality({ i \in 1..Len(list) : list[i] = e })

\* C14: the sorted view is a permutation of the local list in which every
\* Pending entity precedes every Completed one and entities of the same
\* status stand in descending requestTime order, whatever the order of the
\* local list.
C14_SortedView ==
    LET sorted == SortedRequests(requests)
    IN /\ Len(sorted) = Len(requests)
       /\ \A i \in 1..Len(requests) :
              Occurrences(sorted, requests[i]) =
                  Occurrences(requests, requests[i])
       /\ \A i, j \in 1..Len(sorted) :
              i < j =>
                  /\ ~(sorted[i].status = Completed
                       /\ sorted[j].status = Pending)
                  /\ sorted[i].status = sorted[j].status =>
                         sorted[i].requestTime >= sorted[j].requestTime

\* A list that starts with a completed entity and ends with the newest
\* pending one.
C14_Witness ==
    /\ Len(requests) >= 3
    /\ requests[1].status = Completed
    /\ requests[Len(requests)].status = Pending
    /\ \A i \in 1..Len(requests) :
           requests[i].requestTime <= requests[Len(requests)].requestTime
    /\ SortedRequests(requests) # requests

\* An entity passes the status, service type and date filters.
PassesStatus(req) == statusFilter = All \/ req.status = statusFilter
PassesServiceType(req) ==
    serviceTypeFilter = All \/ req.serviceType = serviceTypeFilter
PassesDate(req) ==
    \/ dateFilter = <<>>
    \/ /\ req.requestTime # NaN
       /\ dateFilter =
              LET day == (req.requestTime + TzOffsetMs) \div MsPerDay
              IN Text1970Jan \o <<Digit0 + ((day + 1) \div 10),
                                  Digit0 + ((day + 1) % 10)>>

\* The lower-cased search term occurs in the lower-cased flight number,
\* aircraft bay or staff name.
MatchesSearch(req) ==
    LET term == ToLowerCase(searchTerm)
    IN \/ Includes(ToLowerCase(req.flightNumber), term)
       \/ Includes(ToLowerCase(req.aircraftBay), term)
       \/ Includes(ToLowerCase(req.staffName), term)

\* The search term consists of white space only (or of nothing).
BlankSearch == \A i \in 1..Len(searchTerm) : IsWhiteSpace(searchTerm[i])

\* C15 as stated: the requester view holds exactly the entities of the
\* sorted list that pass the status, service type and date filters and the
\* search (term empty, or found in one of the three fields), in the order
\* of the sorted list.
C15_ViewIsConjunction ==
    role = "REQUEST" =>
        RequestsShown =
            SelectSeq(SortedRequests(requests), LAMBDA req :
                /\ PassesStatus(req)
                /\ PassesServiceType(req)
                /\ PassesDate(req)
                /\ searchTerm = <<>> \/ MatchesSearch(req))

\* C15, amended: the same, with the search passed by every entity when the
\* term is empty or consists of white space only.
C15_ViewIsConjunctionBlank ==
    role = "REQUEST" =>
        RequestsShown =
            SelectSeq(SortedRequests(requests), LAMBDA req :
                /\ PassesStatus(req)
                /\ PassesServiceType(req)
                /\ PassesDate(req)
                /\ BlankSearch \/ MatchesSearch(req))

\* All four filters are set and let some entities through, but not all.
C15_Witness ==
    /\ role = "REQUEST"
    /\ statusFilter # All /\ serviceTypeFilter # All
    /\ dateFilter # <<>> /\ ~BlankSearch
    /\ RequestsShown # <<>>
    /\ Len(RequestsShown) < Len(requests)

\* C16: the delivery view holds exactly the entities of the sorted list
\* that pass the status filter, in the order of the sorted list, whatever
\* the service type filter, the date filter and the search term are.
C16_DeliveryViewStatusOnly ==
    role = "DELIVERY" =>
        \A tf \in ServiceTypeFilters, df \in DateFilters, st \in SearchTerms :
            RequestsToShow(role, requests, statusFilter, tf, df, st) =
                SelectSeq(SortedRequests(requests), PassesStatus)

\* The delivery role filters on Completed and is shown some entities, not
\* all, one of which the requester's other filters would hide.
C16_Witness ==
    /\ role = "DELIVERY"
    /\ statusFilter = Completed
    /\ RequestsShown # <<>>
    /\ Len(RequestsShown) < Len(requests)
    /\ FilteredRequests(SortedRequests(requests), statusFilter, Connect,
                        TextJan2, TextB12) # RequestsShown

\* The local calendar day and the local time of day of an instant.
LocalDay(t) == (t + TzOffsetMs) \div MsPerDay
LocalMsOfDay(t) == (t + TzOffsetMs) % MsPerDay

\* Hour and minute a time of day "hh:mm" names.
DialogHour(s) == (s[1] - Digit0) * 10 + (s[2] - Digit0)
DialogMinute(s) == (s[4] - Digit0) * 10 + (s[5] - Digit0)

\* C17: the completionTime a delivery completion sends lies on the local
\* calendar day of the target's requestTime, at hour hh and minute mm of
\* the submitted time of day, with zero seconds and milliseconds, whatever
\* the clock reads at the submission.
C17_SameDayCompletion ==
    [][ \A n \in DeliveryNames, m \in DeliveryNumbers, s \in DialogTimes :
            HandleConfirmCompleteDelivery(n, m, s) =>
                \A c \in calls' \ calls :
                    LET sent == NewDate(c.upd.completionTime)
                        target == Find(requests, completingDelivery)
                    IN /\ sent # NaN
                       /\ LocalDay(sent) = LocalDay(target.requestTime)
                       /\ LocalMsOfDay(sent) =
                              DialogHour(s) * MsPerHour
                                  + DialogMinute(s) * MsPerMinute
      ]_vars

\* A completion for 00:00 is in flight for a request made at 22:00:00.001
\* UTC of day 0, which is day 1 locally and two days before the submission:
\* it is dated 22:00 UTC of day 0, the local midnight of day 1.
C17_Witness ==
    \E c \in calls :
        /\ c.op = "delivery"
        /\ c.upd.completionTime = <<0, 22, 0, 0, 0>>
        /\ requests[1].requestTime = MkDate(0, 22, 0, 0, 1)


\* The calls that complete an entity.
CompletingOps == {"complete", "delivery"}

\* The step issues a completing update for entity id.
IssuesCompletion(id) ==
    \E c \in calls' \ calls :
        c.stage = "sent" /\ c.op \in CompletingOps /\ c.id = id

\* C21: completionTime is set exactly once. Once an entity of the local
\* list has a completionTime, no step changes the completionTime of the
\* entity with that id and no step issues another completing update for
\* that id.
C21_CompletionTimeSetOnce ==
    [][ \A i \in 1..Len(requests) :
            requests[i].completionTime # Undefined =>
                /\ \A j \in 1..Len(requests') :
                       requests'[j].id = requests[i].id =>
                           requests'[j].completionTime =
                               requests[i].completionTime
                /\ ~IssuesCompletion(requests[i].id) ]_vars


\* C22: requestTime is immutable. No update of the complete or of the
\* delivery completion flow carries a requestTime; the entity of the local
\* list has the requestTime the service holds for its id, the service never
\* changes it, and no step changes the requestTime the local list has for
\* an id.
C22_RequestTimeImmutable ==
    [][ /\ \A c \in calls :
               c.op \in CompletingOps => "requestTime" \notin c.upd.keys
        /\ \A i \in 1..Len(requests) :
               /\ \A j \in 1..Len(db) :
                      db[j].id = requests[i].id =>
                          requests[i].requestTime =
                              NewDate(db[j].request_time)
               /\ \A j \in 1..Len(requests') :
                      requests'[j].id = requests[i].id =>
                          requests'[j].requestTime = requests[i].requestTime
        /\ \A i \in 1..Len(db), j \in 1..Len(db') :
               db'[j].id = db[i].id =>
                   db'[j].request_time = db[i].request_time ]_vars

\* A delivery completion has resolved: the entity carries the delivery
\* staff and a completionTime, and the requestTime it was created with.
C22_Witness ==
    \E i \in 1..Len(requests) :
        /\ requests[i].deliveryStaffName = TextDee
        /\ requests[i].status = Completed
        /\ requests[i].requestTime = MkDate(1, 8, 0, 0, 0)
        /\ requests[i].completionTime # requests[i].requestTime


\* C23: decoding fails on a record whose requestTime is missing or cannot
\* be parsed, so every entity of the local list has an id and a valid
\* requestTime.
C23_NoUndatedEntity ==
    \A i \in 1..Len(requests) :
        requests[i].requestTime # NaN /\ requests[i].id # UndefinedId


\* C24: a deleted entity is not brought back by a late answer. When the
\* answer of a completing update is handled and the local list holds no
\* entity of the update's id, the list holds none after the step either.
C24_NoResurrection ==
    [][ \A c \in calls :
            (Handled(c) /\ c.op \in CompletingOps
             /\ c.id \notin Ids(requests)) =>
                c.id \notin Ids(requests') ]_vars

\* The delete of the one entity resolved first and the answer of its
\* update, sent while the delete was in flight, was handled after it.
C24_Witness ==
    /\ requests = <<>>
    /\ db = <<>>
    /\ Len(notifications) = 2
    /\ notifications[1].message = "Request has been deleted."
    /\ notifications[2].message = "Request marked as complete."


\* The step is the cancel of the flow that issues calls of kind op.
CancelsFlow(op) ==
    IF op = "complete" THEN HandleCancelComplete
    ELSE IF op = "delete" THEN HandleCancelDelete
    ELSE CancelCompleteDelivery

\* C25: the pending target of a flow is cleared only by the cancel of that
\* flow or when a call of that flow, issued for that same target, resolved
\* successfully; the answer of a call issued for another id leaves the
\* pending target as it is.
C25_ClearedForSameTarget ==
    [][ \A op \in FlowOps :
            (FlowTarget(op) # Null /\ FlowTarget(op)' = Null) =>
                \/ CancelsFlow(op)
                \/ \E c \in calls :
                       /\ Handled(c) /\ Succeeded(c)
                       /\ c.op = op /\ c.id = FlowTarget(op) ]_vars

====
